---- MODULE Spec2Model ----
(***************************************************************************)
(* JWT lifecycle with Redis-backed revocation (backend/app/auth.py,        *)
(* backend/app/security/jwt_manager.py, backend/app/redis_security.py) and *)
(* the hash-chained audit trail (backend/app/audit/__init__.py).           *)
(*                                                                         *)
(* Time is counted in ticks of half a second, so that the difference       *)
(* between the integer clock the code reads (int(now.timestamp())) and the *)
(* instant at which a Redis TTL elapses is visible.                        *)
(* An Optional value is a sequence: <<>> is None, <<v>> is the value v.    *)
(***************************************************************************)
EXTENDS Integers, Sequences, FiniteSets, TLC

VARIABLES
    tick,        \* wall clock, in ticks
    issued,      \* tokens returned by create_access_token so far
    uuidCount,   \* number of uuid4() values drawn for jti claims
    redisUp,     \* whether the shared Redis service is reachable
    store,       \* shared Redis: blacklist key -> tick at which it expires (0: no key)
    client,      \* redis_security._redis_client: "none", "redis" or "fake"
    fakeStore,   \* the fakeredis instance of this process: key -> expiry tick
    revoked,     \* history: tokens for which auth.revoke_token has completed
    lastRev,     \* history: per key, <<E>> when the latest r.set was for expiry E at a time <= E
    lastCall,    \* the latest call and its outcome
    entries,     \* AuditTrail.entries
    last_hash,   \* AuditTrail._last_hash
    entryCount,  \* number of uuid4() values drawn for entry_id
    pc,          \* per thread: position inside log_action or get_secure_redis_client
    local,       \* per thread: the arguments and the entry built by log_action,
                 \* the client returned by get_secure_redis_client
    tampered,    \* history: an entry of the list was replaced from outside
    ret          \* the latest AuditTrail call and what it returned

tokVars == <<issued, uuidCount, redisUp, store, client, fakeStore, revoked, lastRev, lastCall>>
auditVars == <<entries, last_hash, entryCount, pc, local, tampered, ret>>
vars == <<tick, tokVars, auditVars>>

----------------------------------------------------------------------------
(* Bounds *)
MaxTick == 9
MaxIssued == 1
MaxRevoked == 1
MaxEntries == 3
MaxAuditTick == 3
NThreads == 2

(* Program constants *)
TicksPerSecond == 2
AccessTokenExpireMinutes == 30

None == <<>>
Some(v) == <<v>>
Max(a, b) == IF a >= b THEN a ELSE b

\* int(datetime.now(tz=timezone.utc).timestamp())
Now(t) == t \div TicksPerSecond

----------------------------------------------------------------------------
(* Configuration: backend/app/config.py *)
SecretKey == "jwt_secret_key"
JwtAlgorithm == "HS256"

\* settings.users (the default registry has no disabled user; USERS_JSON may
\* configure one)
Users ==
    [admin  |-> [role |-> "admin", disabled |-> FALSE],
     user   |-> [role |-> "user",  disabled |-> FALSE],
     locked |-> [role |-> "user",  disabled |-> TRUE]]

----------------------------------------------------------------------------
(* Tokens.  A token is the signed blob: the key and algorithm it was signed *)
(* with and the claims of its payload.                                      *)
Token(key, alg, sub, role, jti, exp, iat) ==
    [key |-> key, alg |-> alg, sub |-> sub, role |-> role,
     jti |-> jti, exp |-> exp, iat |-> iat]

\* Tokens not produced by create_access_token that a caller may present.
ForeignTokens ==
    { Token("attacker_key", "HS256", Some("admin"), Some("admin"), Some("jf-forged"), Some(4), None),
      Token(SecretKey, "HS512", Some("admin"), Some("admin"), Some("jf-alg"), Some(4), None),
      \* legacy format (backend/app/security.py create_access_token): exp only
      Token(SecretKey, "HS256", Some("admin"), Some("admin"), None, Some(3), None),
      Token(SecretKey, "HS256", None, Some("admin"), Some("jf-nosub"), Some(1), None),
      Token(SecretKey, "HS256", Some("admin"), Some(""), Some("jf-norole"), Some(1), None),
      Token(SecretKey, "HS256", Some("ghost"), Some("user"), Some("jf-ghost"), Some(1), None),
      Token(SecretKey, "HS256", Some("locked"), Some("user"), Some("jf-locked"), Some(1), None),
      Token(SecretKey, "HS256", Some("user"), Some("user"), Some("jf-noexp"), None, None) }

UuidPool == <<"uuid-1", "uuid-2", "uuid-3", "uuid-4">>

\* hashlib.sha256(token.encode()).hexdigest(): collision-free on the tokens
\* of the model
Sha256Hex(v) == "sha256:" \o ToString(v)

IssuedTokens == { r.tok : r \in issued }
Presentable == IssuedTokens \cup ForeignTokens

\* jose.jwt.decode as called by decode_token: signature under the configured
\* key, algorithm in the allowed list, and exp (when present) not before now.
\* jose rejects a token only when exp < now.
SignatureOk(tok) == tok.key = SecretKey /\ tok.alg = JwtAlgorithm
Expired(tok, t) == tok.exp # None /\ tok.exp[1] < Now(t)
\* variants: expiry not verified; expiry taken as `now >= exp`
decode_token_noexp(tok, t) == SignatureOk(tok)
decode_token_strict(tok, t) == SignatureOk(tok) /\ ~(tok.exp # None /\ tok.exp[1] <= Now(t))
decode_token(tok, t) == SignatureOk(tok) /\ ~Expired(tok, t)

\* _extract_jti: payload.get("jti") or sha256(token)
_extract_jti(tok) ==
    IF tok.jti # None /\ tok.jti[1] # "" THEN tok.jti[1] ELSE Sha256Hex(tok)

\* _extract_exp
_extract_exp(tok) == tok.exp

Keys == { _extract_jti(tok) : tok \in ForeignTokens }
          \cup { UuidPool[i] : i \in 1..Len(UuidPool) } \cup {"abc123"}

----------------------------------------------------------------------------
(* Redis *)
\* get_secure_redis_client: the client held afterwards, and whether it raised.
\* fakeredis is importable in the deployments modelled here.
FakeredisInstalled == TRUE
get_secure_redis_client(c, up) ==
    IF c # "none" THEN [client |-> c, raised |-> FALSE]
    ELSE IF up THEN [client |-> "redis", raised |-> FALSE]
    ELSE IF FakeredisInstalled THEN [client |-> "fake", raised |-> FALSE]
    ELSE [client |-> "none", raised |-> TRUE]

\* A key set with EX ttl lives for ttl seconds from the instant of the SET.
Live(s, k, t) == s[k] # 0 /\ t < s[k]
Purge(s, t) == [k \in DOMAIN s |-> IF s[k] # 0 /\ t >= s[k] THEN 0 ELSE s[k]]
\* variant: SET with NX, an existing key keeps its expiry
SetEx_nx(s, k, ttl, t) ==
    IF Live(s, k, t) THEN s ELSE [s EXCEPT ![k] = t + ttl * TicksPerSecond]
\* variant: the SET writes the expiry to every key of the store
SetEx_all(s, k, ttl, t) == [j \in DOMAIN s |-> t + ttl * TicksPerSecond]
SetEx(s, k, ttl, t) == [s EXCEPT ![k] = t + ttl * TicksPerSecond]

\* variant: the reader looks the jti up under another key prefix
Exists_otherprefix(c, k) ==
    IF c = "fake" THEN "no"
    ELSE IF ~redisUp THEN "ConnectionError"
    ELSE "no"
\* r.exists(key) through client c: "yes", "no" or "ConnectionError"
Exists(c, k) ==
    IF c = "fake" THEN (IF Live(fakeStore, k, tick) THEN "yes" ELSE "no")
    ELSE IF ~redisUp THEN "ConnectionError"
    ELSE IF Live(store, k, tick) THEN "yes" ELSE "no"

----------------------------------------------------------------------------
(* TTL computation *)
\* auth._revoke_token, line 86.  settings has no attribute jwt_exp_minutes, so
\* the else branch of the conditional expression raises AttributeError.
\* variant: the TTL is one second short of the remaining lifetime
AuthTtl_short(exp_ts, now) ==
    IF exp_ts # None /\ exp_ts[1] # 0
    THEN [raised |-> "", ttl |-> Max(1, exp_ts[1] - now - 1)]
    ELSE [raised |-> "AttributeError", ttl |-> 0]
AuthTtl(exp_ts, now) ==
    IF exp_ts # None /\ exp_ts[1] # 0
    THEN [raised |-> "", ttl |-> Max(1, exp_ts[1] - now)]
    ELSE [raised |-> "AttributeError", ttl |-> 0]

\* jwt_manager.revoke_token, lines 38-46
JmTtl(exp_ts, now) ==
    LET ttl == IF exp_ts # None THEN Max(0, exp_ts[1] - now)
               ELSE Max(0, AccessTokenExpireMinutes * 60)
    IN  [raised |-> "", ttl |-> Max(1, ttl)]

----------------------------------------------------------------------------
(* get_current_user: the checks in the order of the code *)
\* variant: the claims are inspected before the revocation store
GetCurrentUserOutcome_claimsfirst(tok, c) ==
    IF ~decode_token(tok, tick) THEN [status |-> 401, detail |-> "Invalid or expired token"]
    ELSE LET ex == Exists(c, _extract_jti(tok)) IN
    IF c = "none" \/ ex = "ConnectionError" THEN [status |-> 500, detail |-> "ConnectionError"]
    ELSE IF tok.sub = None \/ tok.sub[1] = "" \/ tok.role = None \/ tok.role[1] = ""
         THEN [status |-> 401, detail |-> "Malformed token"]
    ELSE IF ex = "yes" THEN [status |-> 401, detail |-> "Token revoked"]
    ELSE IF tok.sub[1] \notin DOMAIN Users
         THEN [status |-> 401, detail |-> "User not found"]
    ELSE IF Users[tok.sub[1]].disabled
         THEN [status |-> 400, detail |-> "Inactive user"]
    ELSE [status |-> 200, detail |-> "User"]
\* outcome for a token once the client is c; the key field of the call is the
\* key looked up in the store ("" when the store was not consulted)
GetCurrentUserOutcome(tok, c) ==
    IF ~decode_token(tok, tick) THEN [status |-> 401, detail |-> "Invalid or expired token"]
    ELSE LET ex == Exists(c, _extract_jti(tok)) IN
    IF c = "none" \/ ex = "ConnectionError" THEN [status |-> 500, detail |-> "ConnectionError"]
    ELSE IF ex = "yes" THEN [status |-> 401, detail |-> "Token revoked"]
    ELSE IF tok.sub = None \/ tok.sub[1] = "" \/ tok.role = None \/ tok.role[1] = ""
         THEN [status |-> 401, detail |-> "Malformed token"]
    ELSE IF tok.sub[1] \notin DOMAIN Users
         THEN [status |-> 401, detail |-> "User not found"]
    ELSE IF Users[tok.sub[1]].disabled
         THEN [status |-> 400, detail |-> "Inactive user"]
    ELSE [status |-> 200, detail |-> "User"]

----------------------------------------------------------------------------
(* Initial state: module import, nothing issued, nothing revoked *)
\* The last call and what it returned or raised; prior records whether the
\* key already had a live record when _revoke_token / revoke_token was entered,
\* allowed is the allowed_roles of a role-gated request
NoCall == [op |-> "none", tok |-> None, key |-> "", exp |-> None,
           status |-> 0, detail |-> "", ttl |-> 0, prior |-> FALSE, allowed |-> {}]
Call(op, tok, key, exp, status, detail, ttl) ==
    [op |-> op, tok |-> tok, key |-> key, exp |-> exp,
     status |-> status, detail |-> detail, ttl |-> ttl, prior |-> FALSE,
     allowed |-> {}]

EmptyStore == [k \in Keys |-> 0]

InitTok ==
    /\ issued = {}
    /\ uuidCount = 0
    /\ redisUp = TRUE
    /\ store = EmptyStore
    /\ client = "none"
    /\ fakeStore = EmptyStore
    /\ revoked = {}
    /\ lastRev = [k \in Keys |-> None]
    /\ lastCall = NoCall

----------------------------------------------------------------------------
(* The clock advances; Redis drops the keys whose TTL has elapsed *)
Tick ==
    /\ tick < MaxTick
    /\ tick' = tick + 1
    /\ store' = Purge(store, tick + 1)
    /\ fakeStore' = Purge(fakeStore, tick + 1)
    /\ lastCall' = NoCall
    /\ UNCHANGED <<issued, uuidCount, redisUp, client, revoked, lastRev, auditVars>>

\* create_access_token(data, expires_delta).  The clock is read twice (lines
\* 110 and 116) and may advance between the reads.  A falsy expires_delta
\* (None or a zero timedelta) evaluates settings.jwt_exp_minutes, which
\* Settings does not define.
\* data may itself hold jti, exp and iat; to_encode.update(...) replaces them
IssueData == { [sub |-> "admin", role |-> "admin", jti |-> None, exp |-> None, iat |-> None] }
Lifetimes == { None, Some(0), Some(2) }
\* further arguments: a data dict that brings its own jti, exp and iat (the
\* jti the next uuid4 call happens to return), a negative and a short delta
IssueDataAny ==
    IssueData \cup { [sub |-> "admin", role |-> "admin", jti |-> Some("uuid-2"),
                      exp |-> Some(0), iat |-> Some(99)] }
LifetimesAny == Lifetimes \cup { Some(-1), Some(1) }

create_access_token(data, delta, d) ==
    /\ uuidCount < MaxIssued
    /\ tick + d <= MaxTick
    /\ IF delta = None \/ delta[1] = 0
       THEN /\ lastCall' = Call("create_access_token", None, "", delta, 500, "AttributeError", 0)
            /\ UNCHANGED <<tick, issued, uuidCount, store, fakeStore>>
       ELSE LET to_encode == [data EXCEPT !.exp = Some(Now(tick) + delta[1]),
                                          !.iat = Some(Now(tick + d)),
                                          !.jti = Some(UuidPool[uuidCount + 1])]
                tok == Token(SecretKey, JwtAlgorithm, Some(to_encode.sub),
                             Some(to_encode.role), to_encode.jti, to_encode.exp,
                             to_encode.iat)
            IN  /\ issued' = issued \cup {[tok |-> tok, L |-> delta[1]]}
                /\ uuidCount' = uuidCount + 1
                /\ tick' = tick + d
                /\ store' = Purge(store, tick + d)
                /\ fakeStore' = Purge(fakeStore, tick + d)
                /\ lastCall' = Call("create_access_token", Some(tok), "", delta, 200, "token", 0)
    /\ UNCHANGED <<redisUp, client, revoked, lastRev, auditVars>>

\* The body shared by auth._revoke_token and jwt_manager.revoke_token: obtain
\* the client, compute the TTL, r.set(key, "1", ex=ttl).
RevokeCore(op, tok, k, exp_ts, ttlr) ==
    LET cl == get_secure_redis_client(client, redisUp)
        prior == Live(IF cl.client = "fake" THEN fakeStore ELSE store, k, tick)
        Result(status, detail, ttl) ==
            [Call(op, tok, k, exp_ts, status, detail, ttl) EXCEPT !.prior = prior]
    IN
    /\ client' = cl.client
    /\ IF cl.raised \/ (ttlr.raised = "" /\ cl.client = "redis" /\ ~redisUp)
       THEN /\ lastCall' = Result(500, "ConnectionError", 0)
            /\ UNCHANGED <<store, fakeStore, revoked, lastRev>>
       ELSE IF ttlr.raised # ""
       THEN /\ lastCall' = Result(500, ttlr.raised, 0)
            /\ UNCHANGED <<store, fakeStore, revoked, lastRev>>
       ELSE /\ IF cl.client = "fake"
               THEN fakeStore' = SetEx(fakeStore, k, ttlr.ttl, tick) /\ store' = store
               ELSE store' = SetEx(store, k, ttlr.ttl, tick) /\ fakeStore' = fakeStore
            /\ lastRev' = [lastRev EXCEPT ![k] =
                              IF exp_ts # None /\ tick <= exp_ts[1] * TicksPerSecond
                              THEN exp_ts ELSE None]
            /\ revoked' = IF op = "auth.revoke_token" THEN revoked \cup {tok[1]} ELSE revoked
            /\ lastCall' = Result(200, "revoked", ttlr.ttl)

\* auth.revoke_token(token)
revoke_token(tok) ==
    /\ tok \in revoked \/ Cardinality(revoked) < MaxRevoked
    /\ IF ~decode_token(tok, tick)
       THEN /\ lastCall' = Call("auth.revoke_token", Some(tok), "", None, 401,
                                "Invalid or expired token", 0)
            /\ UNCHANGED <<store, fakeStore, revoked, lastRev, client>>
       ELSE RevokeCore("auth.revoke_token", Some(tok), _extract_jti(tok), _extract_exp(tok),
                       AuthTtl(_extract_exp(tok), Now(tick)))
    /\ UNCHANGED <<tick, issued, uuidCount, redisUp, auditVars>>

\* auth._revoke_token(jti, exp_ts) and jwt_manager.revoke_token(jti, exp_ts)
\* called directly, as tests/test_jwt_revocation.py does
DirectKeys == {"abc123"}
ExpInputs == { None, Some(-1), Some(0), Some(1), Some(2), Some(3) }
DirectArgs == DirectKeys \X ExpInputs

auth_revoke_token(k, exp_ts) ==
    /\ RevokeCore("auth._revoke_token", None, k, exp_ts, AuthTtl(exp_ts, Now(tick)))
    /\ UNCHANGED <<tick, issued, uuidCount, redisUp, auditVars>>

jwt_manager_revoke_token(k, exp_ts) ==
    /\ RevokeCore("jwt_manager.revoke_token", None, k, exp_ts, JmTtl(exp_ts, Now(tick)))
    /\ UNCHANGED <<tick, issued, uuidCount, redisUp, auditVars>>

\* jwt_manager.is_token_revoked(jti) (auth._is_token_revoked is the same code)
is_token_revoked(k) ==
    LET cl == get_secure_redis_client(client, redisUp)
        ex == Exists(cl.client, k)
    IN  /\ client' = cl.client
        /\ lastCall' = IF cl.raised \/ ex = "ConnectionError"
                       THEN Call("is_token_revoked", None, k, None, 500, "ConnectionError", 0)
                       ELSE Call("is_token_revoked", None, k, None, 200,
                                 IF ex = "yes" THEN "True" ELSE "False", 0)
        /\ UNCHANGED <<tick, issued, uuidCount, redisUp, store, fakeStore, revoked, lastRev,
                       auditVars>>

\* get_current_user(token)
get_current_user(tok) ==
    LET cl == IF decode_token(tok, tick) THEN get_secure_redis_client(client, redisUp)
              ELSE [client |-> client, raised |-> FALSE]
        out == GetCurrentUserOutcome(tok, cl.client)
    IN  /\ client' = cl.client
        /\ lastCall' = Call("get_current_user", Some(tok),
                            IF decode_token(tok, tick) THEN _extract_jti(tok) ELSE "",
                            None, out.status, out.detail, 0)
        /\ UNCHANGED <<tick, issued, uuidCount, redisUp, store, fakeStore, revoked, lastRev,
                       auditVars>>

----------------------------------------------------------------------------
(* Role-gated requests.  FastAPI resolves Depends(get_current_user) before *)
(* the body of the dependency runs; an HTTPException raised there is the   *)
(* response.                                                               *)
AllowedRoleSets == { {"admin"}, {"admin", "user"} }

\* variant: the role is compared before the user is authenticated
RequiresRoleOutcome_rolefirst(allowed, tok, c) ==
    LET out == GetCurrentUserOutcome(tok, c) IN
    IF tok.role = None \/ tok.role[1] \notin allowed
    THEN [status |-> 403, detail |-> "Operation not permitted for your role"]
    ELSE out
\* auth.requires_role(allowed_roles): role_checker
RequiresRoleOutcome(allowed, tok, c) ==
    LET out == GetCurrentUserOutcome(tok, c) IN
    IF out.status # 200 THEN out
    ELSE IF tok.role[1] \notin allowed
    THEN [status |-> 403, detail |-> "Operation not permitted for your role"]
    ELSE out

\* jwt_manager.require_role(allowed_roles): dep decodes the token and asks
\* the store again after get_current_user has returned the user
RequireRoleOutcome(allowed, tok, c) ==
    LET out == GetCurrentUserOutcome(tok, c) IN
    IF out.status # 200 THEN out
    ELSE IF ~decode_token(tok, tick)
    THEN [status |-> 401, detail |-> "Invalid or expired token"]
    ELSE IF Exists(c, _extract_jti(tok)) = "ConnectionError"
    THEN [status |-> 500, detail |-> "ConnectionError"]
    ELSE IF Exists(c, _extract_jti(tok)) = "yes"
    THEN [status |-> 401, detail |-> "Token revoked"]
    ELSE IF tok.role[1] \notin allowed
    THEN [status |-> 403, detail |-> "Insufficient role"]
    ELSE out

RoleGate(op, allowed, tok, out, c) ==
    /\ client' = c
    /\ lastCall' = [Call(op, Some(tok),
                         IF decode_token(tok, tick) THEN _extract_jti(tok) ELSE "",
                         None, out.status, out.detail, 0) EXCEPT !.allowed = allowed]
    /\ UNCHANGED <<tick, issued, uuidCount, redisUp, store, fakeStore, revoked, lastRev,
                   auditVars>>

ClientFor(tok) ==
    IF decode_token(tok, tick) THEN get_secure_redis_client(client, redisUp).client
    ELSE client

requires_role(allowed, tok) ==
    RoleGate("requires_role", allowed, tok,
             RequiresRoleOutcome(allowed, tok, ClientFor(tok)), ClientFor(tok))

require_role(allowed, tok) ==
    RoleGate("require_role", allowed, tok,
             RequireRoleOutcome(allowed, tok, ClientFor(tok)), ClientFor(tok))

----------------------------------------------------------------------------
(* Audit trail: backend/app/audit/__init__.py *)
EntryIdPool == <<"e-1", "e-2", "e-3", "e-4", "e-5", "e-6">>
Threads == 1..NThreads

\* Values of the details dict: a str, or a value json cannot encode natively
\* (a datetime), given by its type and its str() form
Str(r) == [type |-> "str", repr |-> r]
DateTime(r) == [type |-> "datetime", repr |-> r]

\* json.dumps(..., default=str) of a details dict: a str becomes a JSON
\* string, any other value the JSON string of str(value)
JsonString(r) == [json |-> "string", s |-> r]
JsonDetails(d) == [j \in 1..Len(d) |-> <<d[j][1], JsonString(d[j][2].repr)>>]

\* json.dumps(entry_data, sort_keys=True, default=str): the nine hashed
\* fields as key/value pairs in sorted key order
\* variant: entry_id is left out of the hashed data
HashInput_noid(e) ==
    << <<"action", e.action>>, <<"details", JsonDetails(e.details)>>,
       <<"previous_hash", e.previous_hash>>, <<"resource_id", e.resource_id>>,
       <<"resource_type", e.resource_type>>, <<"status", e.status>>,
       <<"timestamp", e.timestamp>>, <<"user_id", e.user_id>> >>
HashInput(e) ==
    << <<"action", e.action>>, <<"details", JsonDetails(e.details)>>, <<"entry_id", e.entry_id>>,
       <<"previous_hash", e.previous_hash>>, <<"resource_id", e.resource_id>>,
       <<"resource_type", e.resource_type>>, <<"status", e.status>>,
       <<"timestamp", e.timestamp>>, <<"user_id", e.user_id>> >>

\* AuditEntry(...): the dataclass constructor followed by __post_init__
AuditEntry(id, ts, a, prev) ==
    LET e == [entry_id |-> id, timestamp |-> ts, action |-> a.action,
              resource_type |-> a.resource_type, resource_id |-> a.resource_id,
              user_id |-> a.user_id, status |-> a.status,
              details |-> a.details, previous_hash |-> prev]
    IN  [entry_id |-> e.entry_id, timestamp |-> e.timestamp, action |-> e.action,
         resource_type |-> e.resource_type, resource_id |-> e.resource_id,
         user_id |-> e.user_id, status |-> e.status, details |-> e.details,
         previous_hash |-> e.previous_hash, entry_hash |-> Sha256Hex(HashInput(e))]

\* AuditEntry(..., entry_hash=h): the generated __init__ stores every
\* argument, then __post_init__ replaces entry_hash by the computed hash
__post_init__(e) == [e EXCEPT !.entry_hash = Sha256Hex(HashInput(e))]
AuditEntryInit(id, ts, a, prev, h) ==
    __post_init__([entry_id |-> id, timestamp |-> ts, action |-> a.action,
                   resource_type |-> a.resource_type, resource_id |-> a.resource_id,
                   user_id |-> a.user_id, status |-> a.status, details |-> a.details,
                   previous_hash |-> prev, entry_hash |-> h])

Args(action, rtype, rid, user, details) ==
    [action |-> action, resource_type |-> rtype, resource_id |-> rid,
     user_id |-> user, status |-> "SUCCESS", details |-> details]

\* Arguments of log_action; `details or {}` has been applied (<<>> is {})
LogArgs ==
    { Args("LOGIN", "USER", "u1", Some("u1"), <<>>),
      Args("LOGOUT", "USER", "u1", Some("u1"), <<>>),
      Args("CREATE", "MODEL", "m1", None,
           << <<"version", Str("1.0.0")>>, <<"when", DateTime("2026-01-01 00:00:00")>> >>),
      Args("", "USER", "u1", None, <<>>),
      Args("LOGIN", "", "u1", None, <<>>),
      Args("LOGIN", "USER", "", None, <<>>) }

ValidArgs(a) == a.action # "" /\ a.resource_type # "" /\ a.resource_id # ""

\* What a thread holds: the arguments of its call, the entry it built, the
\* threads whose log_action had returned when its own call started, and for
\* a reading call its name, the position of its iteration (i), the length
\* it read (n) and the list it has built so far (acc)
NoLocal == [args |-> Args("", "", "", None, <<>>), entry |-> None, seen |-> {},
            op |-> "", i |-> 0, n |-> 0, acc |-> <<>>, r |-> "none"]
\* The last AuditTrail call: its name, what it returned (val for a scalar or
\* an exception, list for a list) and, for a query, its arguments
NoRet == [op |-> "none", val |-> "", list |-> <<>>, args |-> NoLocal.args]
Ret(op, val, list) == [op |-> op, val |-> val, list |-> list, args |-> NoLocal.args]
QueryRet(op, a, list) == [Ret(op, "", list) EXCEPT !.args = a]

InitAudit ==
    /\ entries = <<>>
    /\ last_hash = None
    /\ entryCount = 0
    /\ pc = [t \in Threads |-> "idle"]
    /\ local = [t \in Threads |-> NoLocal]
    /\ tampered = FALSE
    /\ ret = NoRet

\* verify_integrity, lines 193-215.  The logger is a standard library logger,
\* so logger.error(..., current_id=..., previous_id=...) raises TypeError
\* before `return False` is reached.
RECURSIVE VerifyFrom(_, _)
VerifyFrom(es, i) ==
    IF i > Len(es) THEN "True"
    ELSE IF es[i].previous_hash # Some(es[i - 1].entry_hash) THEN "TypeError"
    ELSE VerifyFrom(es, i + 1)

verify_integrity(es) ==
    IF es = <<>> THEN "True"
    ELSE IF es[1].previous_hash # None THEN "False"
    ELSE VerifyFrom(es, 2)

\* variant: the new entry is not linked to the tail
log_action_unlinked(a) ==
    /\ IF ~ValidArgs(a)
       THEN /\ ret' = Ret("log_action", "ValueError", <<>>)
            /\ UNCHANGED <<entries, last_hash, entryCount>>
       ELSE /\ Len(entries) < MaxEntries
            /\ LET entry == AuditEntry(EntryIdPool[entryCount + 1], tick, a, None)
               IN  /\ entries' = Append(entries, entry)
                   /\ last_hash' = Some(entry.entry_hash)
                   /\ ret' = Ret("log_action", "entry", <<entry>>)
            /\ entryCount' = entryCount + 1
    /\ UNCHANGED <<tick, tokVars, pc, local, tampered>>

\* variant: only action is required
log_action_lax(a) ==
    /\ IF a.action = ""
       THEN /\ ret' = Ret("log_action", "ValueError", <<>>)
            /\ UNCHANGED <<entries, last_hash, entryCount>>
       ELSE /\ Len(entries) < MaxEntries
            /\ LET entry == AuditEntry(EntryIdPool[entryCount + 1], tick, a, last_hash)
               IN  /\ entries' = Append(entries, entry)
                   /\ last_hash' = Some(entry.entry_hash)
                   /\ ret' = Ret("log_action", "entry", <<entry>>)
            /\ entryCount' = entryCount + 1
    /\ UNCHANGED <<tick, tokVars, pc, local, tampered>>

\* variant: the new entry is put at the head of the list
log_action_prepend(a) ==
    /\ IF ~ValidArgs(a)
       THEN /\ ret' = Ret("log_action", "ValueError", <<>>)
            /\ UNCHANGED <<entries, last_hash, entryCount>>
       ELSE /\ Len(entries) < MaxEntries
            /\ LET entry == AuditEntry(EntryIdPool[entryCount + 1], tick, a, last_hash)
               IN  /\ entries' = <<entry>> \o entries
                   /\ last_hash' = Some(entry.entry_hash)
                   /\ ret' = Ret("log_action", "entry", <<entry>>)
            /\ entryCount' = entryCount + 1
    /\ UNCHANGED <<tick, tokVars, pc, local, tampered>>

\* log_action as one call of a single caller
log_action(a) ==
    /\ IF ~ValidArgs(a)
       THEN /\ ret' = Ret("log_action", "ValueError", <<>>)
            /\ UNCHANGED <<entries, last_hash, entryCount>>
       ELSE /\ Len(entries) < MaxEntries
            /\ LET entry == AuditEntry(EntryIdPool[entryCount + 1], tick, a, last_hash)
               IN  /\ entries' = Append(entries, entry)
                   /\ last_hash' = Some(entry.entry_hash)
                   /\ ret' = Ret("log_action", "entry", <<entry>>)
            /\ entryCount' = entryCount + 1
    /\ UNCHANGED <<tick, tokVars, pc, local, tampered>>

VerifyIntegrity ==
    /\ ret' = Ret("verify_integrity", verify_integrity(entries), <<>>)
    /\ UNCHANGED <<tick, tokVars, entries, last_hash, entryCount, pc, local, tampered>>

----------------------------------------------------------------------------
(* Queries and export *)
RECURSIVE Reversed(_)
Reversed(es) == IF es = <<>> THEN <<>> ELSE Append(Reversed(Tail(es)), Head(es))

get_entries_for_resource(es, rtype, rid) ==
    LET P(e) == e.resource_type = rtype /\ e.resource_id = rid IN SelectSeq(es, P)
\* variant: newest first
get_entries_by_user_newestfirst(es, user) ==
    LET P(e) == e.user_id = user IN Reversed(SelectSeq(es, P))
get_entries_by_user(es, user) ==
    LET P(e) == e.user_id = user IN SelectSeq(es, P)
get_entries_by_action(es, action) ==
    LET P(e) == e.action = action IN SelectSeq(es, P)

\* self.entries[-count:]: for count = 0 the slice [-0:] is the whole list
Slice(es, count) ==
    LET n == Len(es)
        start == IF count = 0 THEN 0
                 ELSE IF count > 0 THEN Max(0, n - count)
                 ELSE IF -count > n THEN n ELSE -count
    IN  SubSeq(es, start + 1, n)
get_latest_entries(es, count) == Reversed(Slice(es, count))

\* AuditEntry.to_dict: asdict(self), the ten fields
to_dict(e) == e

\* variant: the export lists the newest entry first
export_json_newestfirst(es) ==
    [i \in 1..Len(es) |->
        [to_dict(es[Len(es) + 1 - i]) EXCEPT !.details = JsonDetails(@)]]
\* export_json: json.dumps([entry.to_dict() ...], default=str), in list order.
\* str fields become JSON strings and None becomes null, which json.loads
\* maps back to equal values; details goes through default=str.
export_json(es) == [i \in 1..Len(es) |-> [to_dict(es[i]) EXCEPT !.details = JsonDetails(@)]]

\* json.loads of an exported document: every JSON string is a str
json_loads(doc) ==
    [i \in 1..Len(doc) |->
        [doc[i] EXCEPT !.details = [j \in 1..Len(@) |-> <<@[j][1], Str(@[j][2].s)>>]]]

\* Arguments of the queries: fields of logged entries and values no entry has
QueryArgs ==
    { Args("LOGIN", "USER", "u1", Some("u1"), <<>>),
      Args("CREATE", "MODEL", "m1", None, <<>>),
      Args("DELETE", "USER", "", Some("nobody"), <<>>) }
Query ==
    /\ \/ \E a \in QueryArgs :
            ret' = QueryRet("get_entries_for_resource", a,
                            get_entries_for_resource(entries, a.resource_type, a.resource_id))
       \/ \E a \in QueryArgs : ret' = QueryRet("get_entries_by_user", a,
                                             get_entries_by_user(entries, a.user_id))
       \/ \E a \in QueryArgs : ret' = QueryRet("get_entries_by_action", a,
                                             get_entries_by_action(entries, a.action))
       \/ \E c \in 0..MaxEntries : ret' = Ret("get_latest_entries", ToString(c),
                                              get_latest_entries(entries, c))
       \/ ret' = Ret("export_json", "", export_json(entries))
    /\ UNCHANGED <<tick, tokVars, entries, last_hash, entryCount, pc, local, tampered>>

----------------------------------------------------------------------------
(* log_action called from several threads.  The method takes no lock, so  *)
(* the interpreter may switch threads between reading self._last_hash,    *)
(* self.entries.append(entry) and the assignment to self._last_hash.      *)
LogCall(t, a) ==
    /\ pc[t] = "idle"
    /\ IF ValidArgs(a)
       THEN pc' = [pc EXCEPT ![t] = "build"]
       ELSE pc' = [pc EXCEPT ![t] = "raised"]
    /\ local' = [local EXCEPT ![t] = [NoLocal EXCEPT !.args = a,
                                      !.seen = {u \in Threads : pc[u] = "returned"}]]
    /\ UNCHANGED <<tick, tokVars, entries, last_hash, entryCount, tampered, ret>>

\* variant: the entry is built without a previous_hash
LogBuild_unlinked(t) ==
    /\ pc[t] = "build"
    /\ local' = [local EXCEPT ![t].entry =
                    Some(AuditEntry(EntryIdPool[entryCount + 1], tick, local[t].args, None))]
    /\ entryCount' = entryCount + 1
    /\ pc' = [pc EXCEPT ![t] = "append"]
    /\ UNCHANGED <<tick, tokVars, entries, last_hash, tampered, ret>>

\* lines 157-165: previous_hash=self._last_hash is read, the entry is built
LogBuild(t) ==
    /\ pc[t] = "build"
    /\ local' = [local EXCEPT ![t].entry =
                    Some(AuditEntry(EntryIdPool[entryCount + 1], tick, local[t].args, last_hash))]
    /\ entryCount' = entryCount + 1
    /\ pc' = [pc EXCEPT ![t] = "append"]
    /\ UNCHANGED <<tick, tokVars, entries, last_hash, tampered, ret>>

\* line 168
LogAppend(t) ==
    /\ pc[t] = "append"
    /\ entries' = Append(entries, local[t].entry[1])
    /\ pc' = [pc EXCEPT ![t] = "setlast"]
    /\ UNCHANGED <<tick, tokVars, last_hash, entryCount, local, tampered, ret>>

\* lines 169-176
LogSetLast(t) ==
    /\ pc[t] = "setlast"
    /\ last_hash' = Some(local[t].entry[1].entry_hash)
    /\ pc' = [pc EXCEPT ![t] = "returned"]
    /\ UNCHANGED <<tick, tokVars, entries, entryCount, local, tampered, ret>>

----------------------------------------------------------------------------
(* One thread calls log_action again and again while the other threads    *)
(* verify, query and export.  The reading methods take no lock; they walk *)
(* self.entries while the writer may append to it.                        *)
Writer == 1
Readers == Threads \ {Writer}
WriterArgs ==
    { Args("LOGIN", "USER", "u1", Some("u1"), <<>>),
      Args("CREATE", "MODEL", "m1", None, << <<"version", Str("1.0.0")>> >>) }
ReaderArgs == { Args("LOGIN", "USER", "u1", Some("u1"), <<>>) }
LatestCounts == {2}
\* the list comprehensions the readers run (the three filters share one shape)
ReaderOps == {"get_entries_by_user", "export_json"}

\* the writer starts its next call
WriterCall(a) ==
    /\ pc[Writer] \in {"idle", "returned"}
    /\ Len(entries) < MaxEntries
    /\ pc' = [pc EXCEPT ![Writer] = "build"]
    /\ local' = [local EXCEPT ![Writer] = [NoLocal EXCEPT !.args = a]]
    /\ UNCHANGED <<tick, tokVars, entries, last_hash, entryCount, tampered, ret>>

ReaderReturns(t, r) ==
    /\ ret' = r
    /\ pc' = [pc EXCEPT ![t] = "idle"]
    /\ local' = [local EXCEPT ![t] = NoLocal]
    /\ UNCHANGED <<tick, tokVars, entries, last_hash, entryCount, tampered>>

ReaderMoves(t, p, l) ==
    /\ pc' = [pc EXCEPT ![t] = p]
    /\ local' = [local EXCEPT ![t] = l]
    /\ UNCHANGED <<tick, tokVars, entries, last_hash, entryCount, tampered, ret>>

\* verify_integrity, line 193: `if not self.entries: return True`
VerifyStart(t) ==
    /\ pc[t] = "idle"
    /\ IF entries = <<>>
       THEN ReaderReturns(t, Ret("verify_integrity", "True", <<>>))
       ELSE ReaderMoves(t, "v_first", [NoLocal EXCEPT !.op = "verify_integrity"])

\* lines 197-199: the first entry
VerifyFirst(t) ==
    /\ pc[t] = "v_first"
    /\ IF entries[1].previous_hash # None
       THEN ReaderReturns(t, Ret("verify_integrity", "False", <<>>))
       ELSE ReaderMoves(t, "v_len", local[t])

\* line 202: range(1, len(self.entries)) reads the length once
VerifyLen(t) ==
    /\ pc[t] = "v_len"
    /\ ReaderMoves(t, "v_iter", [local[t] EXCEPT !.n = Len(entries), !.i = 2])

\* lines 203-212: one iteration, or the return after the last one
VerifyIter(t) ==
    /\ pc[t] = "v_iter"
    /\ LET i == local[t].i IN
       IF i > local[t].n
       THEN ReaderReturns(t, Ret("verify_integrity", "True", <<>>))
       ELSE IF entries[i].previous_hash # Some(entries[i - 1].entry_hash)
       THEN ReaderReturns(t, Ret("verify_integrity", "TypeError", <<>>))
       ELSE ReaderMoves(t, "v_iter", [local[t] EXCEPT !.i = i + 1])

\* a list comprehension over self.entries (the three filters, export_json)
IterOps == {"get_entries_for_resource", "get_entries_by_user", "get_entries_by_action",
            "export_json"}
IterStart(t, op, a) ==
    /\ pc[t] = "idle"
    /\ ReaderMoves(t, "q_iter", [NoLocal EXCEPT !.op = op, !.args = a])

\* the list iterator compares its index with the current length, then
\* yields the element at the index
IterStep(t) ==
    /\ pc[t] = "q_iter"
    /\ LET l == local[t]
           e == entries[l.i + 1]
           keep == IF l.op = "get_entries_for_resource"
                   THEN e.resource_type = l.args.resource_type
                        /\ e.resource_id = l.args.resource_id
                   ELSE IF l.op = "get_entries_by_user" THEN e.user_id = l.args.user_id
                   ELSE IF l.op = "get_entries_by_action" THEN e.action = l.args.action
                   ELSE TRUE
           item == IF l.op = "export_json"
                   THEN [to_dict(e) EXCEPT !.details = JsonDetails(@)] ELSE e
       IN  IF l.i >= Len(entries)
           THEN ReaderReturns(t, QueryRet(l.op, l.args, l.acc))
           ELSE ReaderMoves(t, "q_iter",
                            [l EXCEPT !.i = l.i + 1,
                                      !.acc = IF keep THEN Append(l.acc, item) ELSE l.acc])

\* get_latest_entries: the slice copies the list in one step
LatestCall(t, count) ==
    /\ pc[t] = "idle"
    /\ ReaderReturns(t, Ret("get_latest_entries", ToString(count),
                            get_latest_entries(entries, count)))

----------------------------------------------------------------------------
(* log_action stores `details or {}`: a non-empty dict passed by the      *)
(* caller is stored by reference, not copied, so the entry and the caller *)
(* share one dict object.  The caller assigns to a key of that dict.      *)
ChangedValue == Str("changed-by-caller")
CallerModifiesDetails(k) ==
    /\ entries[k].details # <<>>
    /\ entries[k].details[1][2] # ChangedValue
    /\ entries' = [entries EXCEPT ![k].details[1][2] = ChangedValue]
    /\ ret' = NoRet
    /\ UNCHANGED <<tick, tokVars, last_hash, entryCount, pc, local, tampered>>

----------------------------------------------------------------------------
(* AuditEntry values constructed directly, as in                          *)
(* tests/unit/test_logging_audit.py test_audit_entry_hash_consistency:    *)
(* a base set of arguments and the sets that differ from it in one field  *)
BaseEntryArgs ==
    [id |-> "e-1", ts |-> TicksPerSecond,
     a |-> Args("CREATE", "MODEL", "m1", Some("u1"),
                << <<"when", DateTime("2026-01-01 00:00:00")>> >>),
     prev |-> None, h |-> ""]
EntryArgs ==
    { BaseEntryArgs,
      [BaseEntryArgs EXCEPT !.id = "e-2"],
      [BaseEntryArgs EXCEPT !.ts = TicksPerSecond + 1],
      [BaseEntryArgs EXCEPT !.a.action = "DELETE"],
      [BaseEntryArgs EXCEPT !.a.resource_type = "USER"],
      [BaseEntryArgs EXCEPT !.a.resource_id = "m2"],
      [BaseEntryArgs EXCEPT !.a.user_id = None],
      [BaseEntryArgs EXCEPT !.a.status = "FAILURE"],
      [BaseEntryArgs EXCEPT !.a.details = << <<"when", Str("2026-01-01 00:00:00")>> >>],
      [BaseEntryArgs EXCEPT !.a.details = << <<"when", Str("2026-01-02 00:00:00")>> >>],
      [BaseEntryArgs EXCEPT !.prev = Some("sha256:other")],
      [BaseEntryArgs EXCEPT !.h = "sha256:chosen-by-caller"] }

\* thread t constructs an AuditEntry and keeps it
Construct(t, x) ==
    /\ local' = [local EXCEPT ![t] =
                    [NoLocal EXCEPT !.args = x.a,
                        !.entry = Some(AuditEntryInit(x.id, x.ts, x.a, x.prev, x.h))]]
    /\ UNCHANGED <<tick, tokVars, entries, last_hash, entryCount, pc, tampered, ret>>

----------------------------------------------------------------------------
(* Replacement of an entry of the public list, as in                      *)
(* tests/unit/test_logging_audit.py test_verify_integrity_tampered        *)
TamperPrev(k) == { entries[k].previous_hash, None, Some("forged") }
Tamper(k, prev) ==
    /\ ~tampered
    /\ Len(entries) >= 2
    /\ entries' = [entries EXCEPT ![k] =
                      AuditEntry(EntryIdPool[entryCount + 1], tick,
                                 Args("TAMPERED", "MODEL", "m1", None, <<>>), prev)]
    /\ entryCount' = entryCount + 1
    /\ tampered' = TRUE
    /\ ret' = NoRet
    /\ UNCHANGED <<tick, tokVars, last_hash, pc, local>>

----------------------------------------------------------------------------
(* The Redis service becomes unreachable or reachable again; the process  *)
(* is restarted (module import sets _redis_client to None)                *)
RedisDown ==
    /\ redisUp
    /\ redisUp' = FALSE
    /\ lastCall' = NoCall
    /\ UNCHANGED <<tick, issued, uuidCount, store, client, fakeStore, revoked, lastRev, auditVars>>

RedisBack ==
    /\ ~redisUp
    /\ redisUp' = TRUE
    /\ lastCall' = NoCall
    /\ UNCHANGED <<tick, issued, uuidCount, store, client, fakeStore, revoked, lastRev, auditVars>>

Restart ==
    /\ client # "none"
    /\ client' = "none"
    /\ fakeStore' = EmptyStore
    /\ lastCall' = NoCall
    /\ UNCHANGED <<tick, issued, uuidCount, redisUp, store, revoked, lastRev, auditVars>>

----------------------------------------------------------------------------
(* get_secure_redis_client() called from several threads, statement by     *)
(* statement.  The function takes no lock.                                  *)
\* line 85: `if _redis_client is None`
ClientTest(t) ==
    /\ pc[t] = "idle"
    /\ pc' = [pc EXCEPT ![t] = IF client = "none" THEN "connect" ELSE "return"]
    /\ local' = [local EXCEPT ![t] = [NoLocal EXCEPT !.op = "get_secure_redis_client"]]
    /\ UNCHANGED <<tick, tokVars, entries, last_hash, entryCount, tampered, ret>>

\* lines 86-104: create_client() pings Redis; on ConnectionError a
\* FakeStrictRedis is created; the result is assigned to _redis_client
ClientConnect(t) ==
    LET cl == get_secure_redis_client("none", redisUp) IN
    /\ pc[t] = "connect"
    /\ client' = cl.client
    /\ pc' = [pc EXCEPT ![t] = IF cl.raised THEN "idle" ELSE "return"]
    /\ local' = [local EXCEPT ![t] = IF cl.raised THEN NoLocal ELSE @]
    /\ UNCHANGED <<tick, issued, uuidCount, redisUp, store, fakeStore, revoked, lastRev,
                   lastCall, entries, last_hash, entryCount, tampered, ret>>

\* lines 106-107: `return _redis_client` reads the global again
ClientReturn(t) ==
    /\ pc[t] = "return"
    /\ pc' = [pc EXCEPT ![t] = "holding"]
    /\ local' = [local EXCEPT ![t].r = client]
    /\ UNCHANGED <<tick, tokVars, entries, last_hash, entryCount, tampered, ret>>

\* the caller uses the client it received: r.set(key, "1", ex=ttl)
RevocationTtl == 60
ClientSet(t, k) ==
    /\ pc[t] = "holding"
    /\ IF local[t].r = "fake"
       THEN fakeStore' = SetEx(fakeStore, k, RevocationTtl, tick) /\ store' = store
       ELSE IF redisUp
       THEN store' = SetEx(store, k, RevocationTtl, tick) /\ fakeStore' = fakeStore
       ELSE UNCHANGED <<store, fakeStore>>
    /\ UNCHANGED <<tick, issued, uuidCount, redisUp, client, revoked, lastRev, lastCall,
                   auditVars>>

\* the request of thread t ends
ClientDone(t) ==
    /\ pc[t] = "holding"
    /\ pc' = [pc EXCEPT ![t] = "idle"]
    /\ local' = [local EXCEPT ![t] = NoLocal]
    /\ UNCHANGED <<tick, tokVars, entries, last_hash, entryCount, tampered, ret>>

ClientStep ==
    \E t \in Threads :
        \/ ClientTest(t) \/ ClientConnect(t) \/ ClientReturn(t)
        \/ (\E k \in DirectKeys : ClientSet(t, k))
        \/ ClientDone(t)

----------------------------------------------------------------------------
(* Specifications *)
Init == tick = TicksPerSecond /\ InitTok /\ InitAudit

Issue == \E data \in IssueData, delta \in Lifetimes, d \in {0, 1} : create_access_token(data, delta, d)
Revoke == \E tok \in Presentable : revoke_token(tok)
AuthRevokeDirect == \E a \in DirectArgs : auth_revoke_token(a[1], a[2])
JmRevokeDirect == \E a \in DirectArgs : jwt_manager_revoke_token(a[1], a[2])
Authenticate == \E tok \in Presentable : get_current_user(tok)

Next == Tick \/ Issue \/ Revoke \/ Authenticate
Spec == Init /\ [][Next]_vars

IssueAny ==
    \E data \in IssueDataAny, delta \in LifetimesAny, d \in {0, 1} :
        create_access_token(data, delta, d)
NextIssue == Tick \/ IssueAny
SpecIssue == Init /\ [][NextIssue]_vars

\* POST /token, main.login_for_access_token: the user is looked up, the
\* password verified, the token created with the configured lifetime and an
\* application log line written.  The handler makes no AuditTrail call.
access_token_expire == 2
LoginForms == {"admin", "locked", "nobody"} \X BOOLEAN
login_for_access_token(username, password_ok, d) ==
    IF username \notin DOMAIN Users \/ ~password_ok
    THEN /\ lastCall' = Call("login_for_access_token", None, "", None, 401,
                             "Incorrect username or password", 0)
         /\ UNCHANGED <<tick, issued, uuidCount, redisUp, store, client, fakeStore, revoked,
                        lastRev, auditVars>>
    ELSE create_access_token([sub |-> username, role |-> Users[username].role,
                              jti |-> None, exp |-> None, iat |-> None],
                             Some(access_token_expire), d)

\* POST /auth/logout, routes.logout: Depends(get_current_user) answers the
\* request when it raises; otherwise the body is revoke_token(token) and the
\* response "Logged out successfully".  Both calls obtain the same client.
\* The handler makes no AuditTrail call.
logout(tok) ==
    IF GetCurrentUserOutcome(tok, get_secure_redis_client(client, redisUp).client).status # 200
    THEN get_current_user(tok)
    ELSE revoke_token(tok)

Login == \E f \in LoginForms, d \in {0, 1} : login_for_access_token(f[1], f[2], d)
Logout == \E tok \in Presentable : logout(tok)
NextSession == Tick \/ Login \/ Logout
SpecSession == Init /\ [][NextSession]_vars

NextClient == RedisDown \/ RedisBack \/ ClientStep
SpecClient == Init /\ [][NextClient]_vars

NextTtl == Tick \/ Revoke \/ AuthRevokeDirect \/ JmRevokeDirect
SpecTtl == Init /\ [][NextTtl]_vars

\* Reads of the store: the jti of every issued token, the jti revoked
\* directly, and a jti that no call ever revokes
ReadKeys == { _extract_jti(tok) : tok \in IssuedTokens } \cup DirectKeys \cup {"jf-ghost"}
IsRevoked == \E k \in ReadKeys : is_token_revoked(k)
RevokeIssued == \E tok \in IssuedTokens : revoke_token(tok)
NextRead == Tick \/ Issue \/ RevokeIssued \/ JmRevokeDirect \/ IsRevoked
SpecRead == Init /\ [][NextRead]_vars

RequiresRole == \E allowed \in AllowedRoleSets, tok \in Presentable : requires_role(allowed, tok)
RequireRole == \E allowed \in AllowedRoleSets, tok \in Presentable : require_role(allowed, tok)
NextGate == Tick \/ Revoke \/ RequiresRole \/ RequireRole
SpecGate == Init /\ [][NextGate]_vars

NextOutage == Next \/ RedisDown \/ RedisBack \/ Restart
SpecOutage == Init /\ [][NextOutage]_vars

NextHash == \E t \in Threads : \E x \in EntryArgs : Construct(t, x)
SpecHash == Init /\ [][NextHash]_vars

AuditTick == tick < MaxAuditTick /\ Tick
LogAction == \E a \in LogArgs : log_action(a)

WriterStep ==
    \/ \E a \in WriterArgs : WriterCall(a)
    \/ LogBuild(Writer)
    \/ LogAppend(Writer)
    \/ LogSetLast(Writer)
ReaderStep ==
    \E t \in Readers :
        \/ VerifyStart(t)
        \/ VerifyFirst(t)
        \/ VerifyLen(t)
        \/ VerifyIter(t)
        \/ \E op \in ReaderOps, a \in ReaderArgs : IterStart(t, op, a)
        \/ IterStep(t)
        \/ \E count \in LatestCounts : LatestCall(t, count)
NextReaders == WriterStep \/ ReaderStep
SpecReaders == Init /\ [][NextReaders]_vars

ModifyDetails == \E k \in 1..Len(entries) : CallerModifiesDetails(k)
NextAlias == AuditTick \/ LogAction \/ ModifyDetails \/ VerifyIntegrity
SpecAlias == Init /\ [][NextAlias]_vars

NextAudit == AuditTick \/ LogAction \/ VerifyIntegrity \/ Query
SpecAudit == Init /\ [][NextAudit]_vars

TamperEntry == \E k \in 1..Len(entries) : \E prev \in TamperPrev(k) : Tamper(k, prev)
NextTamper == AuditTick \/ (~tampered /\ LogAction) \/ TamperEntry \/ VerifyIntegrity
SpecTamper == Init /\ [][NextTamper]_vars

ThreadStep ==
    \E t \in Threads :
        \/ \E a \in LogArgs : LogCall(t, a)
        \/ LogBuild(t)
        \/ LogAppend(t)
        \/ LogSetLast(t)
NextThreads == ThreadStep \/ VerifyIntegrity
SpecThreads == Init /\ [][NextThreads]_vars

----------------------------------------------------------------------------
(* Properties *)

\* C1: once auth.revoke_token(T) has completed, every later
\* get_current_user(T) fails: with "Token revoked" while T is unexpired and
\* with "Invalid or expired token" afterwards.
C1_RevocationSticky ==
    (lastCall.op = "get_current_user" /\ lastCall.tok[1] \in revoked)
        => /\ lastCall.status # 200
           /\ lastCall.detail = IF Expired(lastCall.tok[1], tick)
                                THEN "Invalid or expired token" ELSE "Token revoked"

\* C2: when the concurrent log_action calls of all threads (all with valid
\* arguments) have returned, the trail has one entry per thread, the first
\* entry has no previous_hash, every entry links to its predecessor, no two
\* entries carry the same previous_hash, and verify_integrity() is True.
ChainLinked(es) ==
    /\ es # <<>> => es[1].previous_hash = None
    /\ \A i \in 2..Len(es) : es[i].previous_hash = Some(es[i - 1].entry_hash)
NoFork(es) ==
    \A i, j \in 1..Len(es) : i # j => es[i].previous_hash # es[j].previous_hash
C2_NoForkUnderConcurrency ==
    (\A t \in Threads : pc[t] = "returned")
        => /\ Len(entries) = NThreads
           /\ ChainLinked(entries)
           /\ NoFork(entries)
           /\ verify_integrity(entries) = "True"

\* C3: with a single caller, after any sequence of log_action calls, queries,
\* exports and verifications the chain is linked and verify_integrity()
\* returns True.
C3_ChainIntegrity ==
    /\ ChainLinked(entries)
    /\ verify_integrity(entries) = "True"
    /\ ret.op = "verify_integrity" => ret.val = "True"
C3_Witness ==
    /\ Len(entries) >= 2
    /\ ret.op = "verify_integrity"
    /\ ret.val = "True"

\* C4: get_current_user returns a User only if the signature verifies under
\* the configured key and algorithm, the token is not expired, its jti has no
\* live revocation record, sub and role are present and non-empty, sub is in
\* the user registry and that user is not disabled; in every other case it
\* raises.
C4_Conditions(tok) ==
    /\ tok.key = SecretKey
    /\ tok.alg = JwtAlgorithm
    /\ (tok.exp = None \/ Now(tick) <= tok.exp[1])
    /\ ~Live(store, _extract_jti(tok), tick)
    /\ tok.sub # None /\ tok.sub[1] # ""
    /\ tok.role # None /\ tok.role[1] # ""
    /\ tok.sub[1] \in DOMAIN Users
    /\ ~Users[tok.sub[1]].disabled
C4_AcceptOnlyValid ==
    lastCall.op = "get_current_user"
        => /\ lastCall.status = 200 => C4_Conditions(lastCall.tok[1])
           /\ ~C4_Conditions(lastCall.tok[1]) => lastCall.status \in {400, 401}
C4_Witness ==
    /\ lastCall.op = "get_current_user"
    /\ lastCall.status = 200
    /\ lastCall.tok[1] \in IssuedTokens

\* C5: while the shared revocation store is unreachable, get_current_user
\* accepts no token.
C5_FailClosed ==
    (lastCall.op = "get_current_user" /\ ~redisUp) => lastCall.status # 200

\* C6: a record written for expiry E at a time t0 <= E exists at every time
\* before E and is gone no later than 2 seconds after E.
C6_RecordLifetime ==
    \A k \in Keys :
        lastRev[k] # None =>
            LET E == lastRev[k][1] IN
            /\ tick < E * TicksPerSecond => Live(store, k, tick)
            /\ tick >= (E + 2) * TicksPerSecond => store[k] = 0
            /\ store[k] # 0 => store[k] <= (E + 2) * TicksPerSecond
C6_Witness ==
    \E k \in Keys :
        /\ lastRev[k] # None
        /\ tick >= (lastRev[k][1] + 2) * TicksPerSecond
        /\ store[k] = 0

\* C7: auth._revoke_token and jwt_manager.revoke_token never raise and store
\* the TTL max(1, exp_ts - now) when exp_ts is given (0 and past values
\* included) and the default access-token lifetime in seconds when it is
\* None; both compute the same TTL for the same arguments.
ExpectedTtl(exp_ts, now) ==
    IF exp_ts = None THEN AccessTokenExpireMinutes * 60 ELSE Max(1, exp_ts[1] - now)
C7_TtlComputation ==
    lastCall.op \in {"auth._revoke_token", "jwt_manager.revoke_token"}
        => /\ lastCall.status = 200
           /\ lastCall.ttl = ExpectedTtl(lastCall.exp, Now(tick))
           /\ AuthTtl(lastCall.exp, Now(tick)) = JmTtl(lastCall.exp, Now(tick))

\* C8: verify_integrity() never raises and returns True exactly when the
\* trail is empty or entry 0 has no previous_hash and every later entry links
\* to its predecessor, and False otherwise.
C8_VerifyReturnsBoolean ==
    ret.op = "verify_integrity"
        => ret.val = IF ChainLinked(entries) THEN "True" ELSE "False"

\* C9: after an entry of a trail of length >= 2 has been replaced by a
\* different AuditEntry with a different entry_hash, verify_integrity()
\* returns False.
C9_TamperDetected ==
    (tampered /\ ret.op = "verify_integrity") => ret.val = "False"

\* C10: a never-revoked token issued with lifetime L >= 2 for a known,
\* enabled user is accepted at issued_at + L - 1, rejected at
\* issued_at + L + 1, and once rejected for expiry stays rejected.
C10_Case(r) ==
    /\ lastCall.op = "get_current_user"
    /\ lastCall.tok = Some(r.tok)
    /\ r.L >= 2
    /\ r.tok \notin revoked
RejectedForExpiry(tok) ==
    GetCurrentUserOutcome(tok, "redis").detail = "Invalid or expired token"
C10_Points ==
    \A r \in issued :
        C10_Case(r) =>
            /\ Now(tick) = r.tok.iat[1] + r.L - 1 => lastCall.status = 200
            /\ Now(tick) = r.tok.iat[1] + r.L + 1
                 => (lastCall.status = 401 /\ lastCall.detail = "Invalid or expired token")
C10_Expiry ==
    /\ []C10_Points
    /\ [][\A tok \in IssuedTokens : RejectedForExpiry(tok) => RejectedForExpiry(tok)']_vars
C10_Witness ==
    \E r \in issued :
        /\ C10_Case(r)
        /\ Now(tick) = r.tok.iat[1] + r.L + 1
        /\ lastCall.status = 401

\* C11: auth.revoke_token(token) writes a revocation record exactly when the
\* token decodes (a token at its last valid second included); for a token
\* that does not decode it raises HTTP 401 and leaves the store unchanged.
C11_RevokeIffDecodes ==
    [][lastCall'.op = "auth.revoke_token" =>
          LET tok == lastCall'.tok[1] IN
          IF decode_token(tok, tick)
          THEN /\ lastCall'.status = 200
               /\ Live(store', _extract_jti(tok), tick')
          ELSE /\ lastCall'.status = 401
               /\ store' = store
               /\ fakeStore' = fakeStore]_vars

\* C12: revoking again a jti whose record is still live (auth.revoke_token on
\* the same unexpired token, or jwt_manager.revoke_token on the same jti)
\* does not raise, leaves the jti revoked, and the one record of the jti
\* carries the TTL computed at this latest call.
C12_RevokeIdempotent ==
    (lastCall.op \in {"auth.revoke_token", "jwt_manager.revoke_token"} /\ lastCall.prior)
        => /\ lastCall.status = 200
           /\ Live(store, lastCall.key, tick)
           /\ lastCall.ttl = ExpectedTtl(lastCall.exp, Now(tick))
           /\ store[lastCall.key] = tick + lastCall.ttl * TicksPerSecond
C12_Witness ==
    /\ lastCall.op = "auth.revoke_token"
    /\ lastCall.prior
    /\ lastCall.status = 200
    /\ tick % TicksPerSecond = 1
    /\ store[lastCall.key] = tick + lastCall.ttl * TicksPerSecond

\* C13: is_token_revoked(jti) writes nothing and returns True exactly while a
\* record written by a revocation of jti is within its TTL: False for a jti
\* never revoked (every freshly issued token included), True from the revoke
\* call until the TTL elapses, False afterwards.
NeverRevoked(k) ==
    /\ k \notin DirectKeys
    /\ \A tok \in revoked : _extract_jti(tok) # k
C13_Read ==
    lastCall.op = "is_token_revoked" =>
        LET k == lastCall.key IN
        /\ lastCall.status = 200
        /\ lastCall.detail = IF Live(store, k, tick) THEN "True" ELSE "False"
        /\ NeverRevoked(k) => lastCall.detail = "False"
        /\ (lastRev[k] # None /\ tick < lastRev[k][1] * TicksPerSecond)
              => lastCall.detail = "True"
        /\ (lastRev[k] # None /\ tick >= (lastRev[k][1] + 2) * TicksPerSecond)
              => lastCall.detail = "False"
C13_IsRevokedPureRead ==
    /\ []C13_Read
    /\ [][lastCall'.op = "is_token_revoked" => (store' = store /\ fakeStore' = fakeStore)]_vars
C13_Witness ==
    /\ lastCall.op = "is_token_revoked"
    /\ lastCall.detail = "False"
    /\ lastRev[lastCall.key] # None
    /\ tick >= (lastRev[lastCall.key][1] + 1) * TicksPerSecond

\* C14: get_current_user reports the first failing check in the order decode,
\* revocation, sub or role absent, sub not in the registry, user disabled; a
\* revoked token without role is reported as revoked, and the store is not
\* consulted for a token that fails decoding.
ClaimAbsent(c) == c = None \/ c[1] = ""
FirstFailure(tok) ==
    IF ~SignatureOk(tok) \/ Expired(tok, tick) THEN "Invalid or expired token"
    ELSE IF Live(store, _extract_jti(tok), tick) THEN "Token revoked"
    ELSE IF ClaimAbsent(tok.sub) \/ ClaimAbsent(tok.role) THEN "Malformed token"
    ELSE IF tok.sub[1] \notin DOMAIN Users THEN "User not found"
    ELSE IF Users[tok.sub[1]].disabled THEN "Inactive user"
    ELSE "User"
C14_FailurePrecedence ==
    lastCall.op = "get_current_user" =>
        /\ lastCall.detail = FirstFailure(lastCall.tok[1])
        /\ lastCall.detail = "Invalid or expired token" <=> lastCall.key = ""
C14_Witness ==
    /\ lastCall.op = "get_current_user"
    /\ ClaimAbsent(lastCall.tok[1].role)
    /\ lastCall.tok[1] \in revoked
    /\ lastCall.detail = "Token revoked"

\* C15 as stated: on a role-gated request (auth.requires_role,
\* jwt_manager.require_role) a token that is invalid (forged, wrong
\* algorithm, without sub or role, of an unknown user), expired or revoked
\* gets 401 whatever its role; 403 is produced only for a token that passed
\* decoding and the revocation check; every token that is not invalid,
\* expired or revoked gets 403 when its role is not in allowed_roles and is
\* admitted otherwise.
RoleGates == {"requires_role", "require_role"}
PassedDecodeAndRevocation(tok) ==
    decode_token(tok, tick) /\ ~Live(store, _extract_jti(tok), tick)
InvalidClaims(tok) ==
    \/ ClaimAbsent(tok.sub)
    \/ ClaimAbsent(tok.role)
    \/ tok.sub[1] \notin DOMAIN Users
RoleAllowed(tok, allowed) == tok.role # None /\ tok.role[1] \in allowed
Tail_hash(es) == IF es = <<>> THEN None ELSE Some(es[Len(es)].entry_hash)
C16_RejectedLeavesTrail ==
    [][\A a \in LogArgs :
          log_action(a) =>
              IF a.action = "" \/ a.resource_type = "" \/ a.resource_id = ""
              THEN /\ ret'.val = "ValueError"
                   /\ entries' = entries
                   /\ last_hash' = last_hash
                   /\ last_hash' = Tail_hash(entries')
              ELSE /\ ret'.val = "entry"
                   /\ ret'.list[1].previous_hash = Tail_hash(entries)]_vars
C16_Witness ==
    /\ ret.op = "log_action"
    /\ ret.val = "ValueError"
    /\ Len(entries) >= 1
    /\ last_hash = Tail_hash(entries)

\* C17: the entry list only grows at its end: the list of every state is a
\* prefix of the list of the next state, an accepted log_action lengthens it
\* by exactly the returned entry, placed last, and no other operation
\* changes it.
IsPrefix(s, t) == Len(s) <= Len(t) /\ SubSeq(t, 1, Len(s)) = s
C17_AppendOnly ==
    [][/\ IsPrefix(entries, entries')
       /\ (ret'.op = "log_action" /\ ret'.val = "entry" /\ ret' # ret)
             => entries' = Append(entries, ret'.list[1])
       /\ entries' # entries => (ret'.op = "log_action" /\ ret'.val = "entry")]_vars
C17_Witness ==
    /\ Len(entries) >= 2
    /\ ret.op = "log_action"
    /\ ret.val = "entry"
    /\ ret.list[1] = entries[Len(entries)]

\* C18: get_entries_for_resource, get_entries_by_user and
\* get_entries_by_action return exactly the entries that match their
\* arguments, each once, in insertion order, and leave entries, _last_hash
\* and the result of verify_integrity as they were.
Matches(op, a, e) ==
    IF op = "get_entries_for_resource"
    THEN e.resource_type = a.resource_type /\ e.resource_id = a.resource_id
    ELSE IF op = "get_entries_by_user" THEN e.user_id = a.user_id
    ELSE e.action = a.action
Filters == {"get_entries_for_resource", "get_entries_by_user", "get_entries_by_action"}
Pos(es, e) == CHOOSE i \in 1..Len(es) : es[i] = e
C18_Filter ==
    ret.op \in Filters =>
        LET r == ret.list IN
        /\ \A i \in 1..Len(r) :
              (\E j \in 1..Len(entries) : entries[j] = r[i]) /\ Matches(ret.op, ret.args, r[i])
        /\ Len(r) = Cardinality({j \in 1..Len(entries) : Matches(ret.op, ret.args, entries[j])})
        /\ \A i, j \in 1..Len(r) : i < j => Pos(entries, r[i]) < Pos(entries, r[j])
C18_PureFilters ==
    /\ []C18_Filter
    /\ [][(ret'.op \in Filters /\ ret' # ret)
             => /\ entries' = entries
                /\ last_hash' = last_hash
                /\ verify_integrity(entries') = verify_integrity(entries)]_vars
C18_Witness ==
    /\ ret.op = "get_entries_by_user"
    /\ Len(ret.list) >= 2
    /\ Len(ret.list) < Len(entries)

\* C19: for every count >= 0, get_latest_entries(count) returns exactly the
\* min(count, len) most recently appended entries, newest first, and leaves
\* the trail unmodified; get_latest_entries(0) returns the empty list.
Min(a, b) == IF a <= b THEN a ELSE b
C19_Latest ==
    ret.op = "get_latest_entries" =>
        \A count \in 0..MaxEntries :
            ret.val = ToString(count) =>
                LET n == Len(entries)
                    k == Min(count, n)
                IN  /\ Len(ret.list) = k
                    /\ \A i \in 1..Len(ret.list) : ret.list[i] = entries[n - i + 1]
                    /\ count = 0 => ret.list = <<>>
C19_LatestEntries ==
    /\ []C19_Latest
    /\ [][(ret'.op = "get_latest_entries" /\ ret' # ret)
             => (entries' = entries /\ last_hash' = last_hash)]_vars

\* C20 as stated: export_json leaves the trail unmodified, and
\* deserializing its output yields one object per entry, in chain order,
\* whose ten fields equal those of the corresponding entry, so the chain-link
\* check on the deserialized list agrees with verify_integrity on the trail.
ChainCheck(d) == IF ChainLinked(d) THEN "True" ELSE "False"
C20_RoundTrip ==
    ret.op = "export_json" =>
        LET d == json_loads(ret.list) IN
        /\ Len(d) = Len(entries)
        /\ \A i \in 1..Len(d) : d[i] = entries[i]
        /\ ChainCheck(d) = verify_integrity(entries)
Stringified(details) ==
    [j \in 1..Len(details) |-> <<details[j][1], Str(details[j][2].repr)>>]
C20_RoundTripAmended ==
    ret.op = "export_json" =>
        LET d == json_loads(ret.list) IN
        /\ Len(d) = Len(entries)
        /\ \A i \in 1..Len(d) :
              /\ d[i] = [entries[i] EXCEPT !.details = Stringified(@)]
              /\ \A j \in 1..Len(entries[i].details) :
                    entries[i].details[j][2].type = "str"
                        => d[i].details[j] = entries[i].details[j]
        /\ ChainCheck(d) = verify_integrity(entries)
NineFields(e) ==
    <<e.entry_id, e.timestamp, e.action, e.resource_type, e.resource_id,
      e.user_id, e.status, e.details, e.previous_hash>>
Constructed == { local[t].entry[1] : t \in {u \in Threads : local[u].entry # None} }
NineFieldsJson(e) ==
    <<e.entry_id, e.timestamp, e.action, e.resource_type, e.resource_id,
      e.user_id, e.status, Stringified(e.details), e.previous_hash>>
HashMatchesFields(e) == e.entry_hash = Sha256Hex(HashInput(e))
C22_EntriesImmutable ==
    /\ [](\A k \in 1..Len(entries) : HashMatchesFields(entries[k]))
    /\ [][\A k \in 1..Len(entries) : entries'[k] = entries[k]]_vars

\* C23: if thread A's log_action has appended its entry before thread B's
\* call returns, A's entry is before B's in the chain; and when A's call had
\* returned before B's call started, A's entry precedes B's and following
\* previous_hash from B's entry reaches A's entry.
Appended(t) == pc[t] \in {"setlast", "returned"}
EntryOf(t) == local[t].entry[1]
RECURSIVE Reaches(_, _, _)
Reaches(e, target, n) ==
    IF e = target THEN TRUE
    ELSE IF n = 0 \/ e.previous_hash = None THEN FALSE
    ELSE \E j \in 1..Len(entries) :
            /\ Some(entries[j].entry_hash) = e.previous_hash
            /\ Reaches(entries[j], target, n - 1)
C23_ReturnedBeforeStart ==
    \A A, B \in Threads :
        (A \in local[B].seen /\ pc[A] = "returned" /\ local[A].entry # None /\ Appended(B))
            => /\ Pos(entries, EntryOf(A)) < Pos(entries, EntryOf(B))
               /\ Reaches(EntryOf(B), EntryOf(A), Len(entries))
C23_Ordering ==
    /\ []C23_ReturnedBeforeStart
    /\ [][\A A, B \in Threads :
             (A # B /\ pc[B] = "setlast" /\ pc'[B] = "returned" /\ Appended(A))
                 => Pos(entries, EntryOf(A)) < Pos(entries, EntryOf(B))]_vars

\* C24: with one thread calling log_action and the other threads verifying,
\* querying and exporting at the same time, every verify_integrity returns
\* True and every query or export returns what the operation gives on some
\* prefix of the chain, made of complete, linked entries only.
Prefix(n) == SubSeq(entries, 1, n)
OnPrefix(r, n) ==
    IF r.op = "get_entries_for_resource"
    THEN r.list = get_entries_for_resource(Prefix(n), r.args.resource_type, r.args.resource_id)
    ELSE IF r.op = "get_entries_by_user" THEN r.list = get_entries_by_user(Prefix(n), r.args.user_id)
    ELSE IF r.op = "get_entries_by_action" THEN r.list = get_entries_by_action(Prefix(n), r.args.action)
    ELSE IF r.op = "export_json" THEN r.list = export_json(Prefix(n))
    ELSE \E count \in LatestCounts :
            r.val = ToString(count) /\ r.list = get_latest_entries(Prefix(n), count)
C24_ReadersSafe ==
    /\ ret.op = "verify_integrity" => ret.val = "True"
    /\ ret.op \in IterOps \cup {"get_latest_entries"}
          => \E n \in 0..Len(entries) : OnPrefix(ret, n)
    /\ ChainLinked(entries)
    /\ \A k \in 1..Len(entries) : HashMatchesFields(entries[k])
C24_Witness ==
    /\ ret.op = "verify_integrity"
    /\ ret.val = "True"
    /\ pc[Writer] = "setlast"
    /\ Len(entries) >= 2

\* C25: the response of get_current_user (status code and detail) to a
\* revoked but unexpired token is the same as its response to an expired
\* token, so that a caller cannot tell the two apart.
RevokedUnexpired(tok) ==
    /\ SignatureOk(tok)
    /\ ~Expired(tok, tick)
    /\ Live(store, _extract_jti(tok), tick)
C25_RevokedLooksExpired ==
    \A t1, t2 \in Presentable :
        (RevokedUnexpired(t1) /\ SignatureOk(t2) /\ Expired(t2, tick))
            => GetCurrentUserOutcome(t1, "redis") = GetCurrentUserOutcome(t2, "redis")

\* C26: create_access_token returns, for every data dict and every
\* expires_delta (None, zero and negative included), a token with integer
\* iat and exp, exp > iat, and a jti generated at issuance that no other
\* issued token carries, whatever jti, iat or exp the caller put in data.
C26_IssuedTokenClaims ==
    /\ lastCall.op = "create_access_token" => lastCall.status = 200
    /\ \A r \in issued :
          /\ r.tok.exp # None /\ r.tok.iat # None /\ r.tok.jti # None
          /\ r.tok.exp[1] > r.tok.iat[1]
          /\ \A q \in issued : q.tok # r.tok => q.tok.jti # r.tok.jti

\* C27: each successful login (POST /token) and each successful logout
\* (POST /auth/logout) appends exactly one entry to the audit chain, so the
\* chain holds one entry per action, in the order the actions happened.
LoggedIn == lastCall'.op = "create_access_token" /\ lastCall'.status = 200 /\ issued' # issued
LoggedOut == lastCall'.op = "auth.revoke_token" /\ lastCall'.status = 200
C27_SessionActionsAudited ==
    [][ (LoggedIn \/ LoggedOut) =>
            /\ Len(entries') = Len(entries) + 1
            /\ SubSeq(entries', 1, Len(entries)) = entries
            /\ entries'[Len(entries')].action = (IF LoggedIn THEN "LOGIN" ELSE "LOGOUT") ]_vars

\* C28: revoke_token(T1) creates or refreshes only the record keyed by T1's
\* jti: every other record of the store is left as it was, and for every
\* other token T2 the answer of is_revoked for T2's jti and the outcome of
\* get_current_user(T2) are the same before and after; a never-revoked token
\* from create_access_token is accepted or rejected as expired, nothing else.
ClientNow == get_secure_redis_client(client, redisUp).client
IsRevokedAnswer(T) == Exists(ClientNow, _extract_jti(T))
UserOutcome(T) == GetCurrentUserOutcome(T, ClientNow)
RevokedNow(T1) == lastCall'.op = "auth.revoke_token" /\ lastCall'.tok = Some(T1)
Holding == { t \in Threads : pc[t] = "holding" }
C29_Visibility ==
    \A t, u \in Holding : \A k \in DirectKeys :
        Exists(local[t].r, k) = "yes" => Exists(local[u].r, k) # "no"
C29_SingleClient ==
    /\ \A t, u \in Holding : local[t].r = local[u].r
    /\ C29_Visibility

\* C30: whenever no log_action call is in progress, _last_hash is None if
\* the trail is empty and otherwise equals entries[-1].entry_hash, after
\* sequential calls and after concurrent log_action calls have completed.
NoLogInProgress == \A t \in Threads : pc[t] \in {"idle", "returned", "raised"}
C30_TailPointer ==
    NoLogInProgress =>
        last_hash = (IF entries = <<>> THEN None
                     ELSE Some(entries[Len(entries)].entry_hash))

====
